---- MODULE Spec2Model ----
(***************************************************************************)
(* Execution engine of the EG&G 273A potentiostat front end                *)
(* (src/main_Back.py, run_method and its thread body task).                *)
(*                                                                         *)
(* task is the engine: it is entered from the idle state as a unit.        *)
(* run_method, the button handler that starts it at line 696, is the       *)
(* action run_method; it never gets past line 540.                         *)
(*                                                                         *)
(* Numbers: every entry widget holds the decimal text of an integer, so    *)
(* int(text) and float(text) both give that integer and every sum,         *)
(* difference and floor of a quotient below is exact in Python as well.    *)
(* Currents are counted in units of 10^-2 A, the unit of the debugging     *)
(* response [10, -2].                                                      *)
(***************************************************************************)
EXTENDS Integers, Sequences, FiniteSets, TLC

VARIABLES
    DEBUGGING,        \* module constant of line 29, a build switch
    process_parsed,   \* the parsed method: sequence of repeat blocks
    input_widgets,    \* symbol -> entered integer, for the symbols with an entry
    pc,               \* position of the handler / thread body
    error,            \* exception that ended the run, "" when none
    continue_method,  \* task's local: answer of askyesno, "True" or "False"
    csv_rows,         \* rows of the output file, <<>> before it is opened
    total_steps,      \* task's local
    step_counter,     \* task's local
    block_i,          \* index of the repeat block being executed
    cycles_val,       \* cycle count resolved by the execution pass
    c,                \* index of the current pass, 0-based as in range()
    loop_i,           \* index of the for loop being executed
    r_val,            \* effective mean repetitions
    delay_val,        \* effective delay
    V_values,         \* sweep of the current for loop
    v_i,              \* index in V_values of the value being processed
    currents,         \* readings taken for the current value
    progress_bar,     \* value last given to progress_bar.set, <<num, den>>
    passes,           \* passes started per executed block (history)
    begun,            \* <<V, r_val>> of every sweep value taken up (history)
    trace,            \* instrument, sink and progress events (history)
    call,             \* a function of the module applied on its own: its arguments
    returned,         \* whether that application has returned
    result,           \* what it returned
    runs,             \* the task threads of two run requests
    folder,           \* numbers n of the files <experiment>_n.csv, with their writers
    device_log        \* <<run, operation>> on the shared instrument handle

vars == <<DEBUGGING, process_parsed, input_widgets, pc, error, continue_method,
          csv_rows, total_steps, step_counter, block_i, cycles_val, c, loop_i,
          r_val, delay_val, V_values, v_i, currents, progress_bar, passes,
          begun, trace, call, returned, result, runs, folder, device_log>>

----------------------------------------------------------------------------
(* Bounds of the input space *)

MaxCycles == 2
MaxV == 2
MaxMean == 2

Unset == "unset"

CycleVals == 0..MaxCycles
StartVals == {0, 1}
VoltVals == 0..MaxV
StepVals == {-1, 0, 1, 2}
MeanVals == 0..MaxMean
DelayVals == {-1, 0}

Symbols == {"C", "N", "Vi", "Vf", "Vr", "R", "D"}

(* FOR_RANGEV(Vi,Vf,Vr){MEAN(R),DELAY(D),OUTPUT(Vout=V,Iout=I)} as parsed *)
FwdLoop ==
    [start |-> "Vi", end |-> "Vf", step |-> "Vr",
     commands |-> << [mean |-> "R"], [delay |-> "D"],
                     [outputs |-> [Vout |-> "V", Iout |-> "I"]] >>]

(* FOR_RANGEV(Vf,Vi,Vr){} as parsed: the return sweep, no commands *)
RevLoop ==
    [start |-> "Vf", end |-> "Vi", step |-> "Vr", commands |-> << >>]

RepeatBlocks ==
    { [repeats |-> "C", for_loops |-> <<FwdLoop, RevLoop>>],
      [repeats |-> "N", for_loops |-> <<FwdLoop>>],
      [repeats |-> "N", for_loops |-> << >>] }

Programs ==
    { << >> } \cup { <<b>> : b \in RepeatBlocks }
              \cup { <<b1, b2>> : b1 \in RepeatBlocks, b2 \in RepeatBlocks }

(* input_widgets: one entry per input of the method; a method that       *)
(* declares no input named C has no key "C"                             *)
BoundTo(vn, vi, vf, vr, vm, vd) ==
    [s \in Symbols \ {"C"} |->
          CASE s = "N"  -> vn
            [] s = "Vi" -> vi
            [] s = "Vf" -> vf
            [] s = "Vr" -> vr
            [] s = "R"  -> vm
            [] s = "D"  -> vd ]

WithC(w, vc) == [s \in Symbols |-> IF s = "C" THEN vc ELSE w[s]]

Bindings ==
    LET NoC == { BoundTo(vn, vi, vf, vr, vm, vd) :
                   vn \in CycleVals, vi \in StartVals, vf \in VoltVals,
                   vr \in StepVals,
                   vm \in MeanVals, vd \in DelayVals }
    IN  NoC \cup { WithC(w, vc) : w \in NoC, vc \in CycleVals }

----------------------------------------------------------------------------
(* Helpers *)

Abs(x) == IF x < 0 THEN -x ELSE x

RECURSIVE SumSeq(_)
SumSeq(s) == IF s = << >> THEN 0 ELSE Head(s) + SumSeq(Tail(s))

(* dict.get(key) is not None, key in dict *)
Has(w, sym) == sym \in DOMAIN w

HeaderRow == <<"Voltage (mV)", "Current (A)">>

----------------------------------------------------------------------------
(* frange, lines 682-693: x runs from start by step while it has not       *)
(* passed stop; a step of 0 is handled by the descending branch            *)

RECURSIVE frange_loop(_, _, _, _)
frange_loop(x, stop, step, vals) ==
    IF step > 0
      THEN IF x <= stop THEN frange_loop(x + step, stop, step, Append(vals, x))
                        ELSE vals
      ELSE IF x >= stop THEN frange_loop(x + step, stop, step, Append(vals, x))
                        ELSE vals

frange(start, stop, step) == frange_loop(start, stop, step, << >>)

(* lines 644-648: the bound step as it is when ascending, minus its       *)
(* magnitude otherwise                                                     *)
DirectedSweep(start_val, end_val, step_val) ==
    IF start_val < end_val
      THEN frange(start_val, end_val, step_val)
      ELSE frange(start_val, end_val, -Abs(step_val))

----------------------------------------------------------------------------
(* Pre-run pass, lines 588-603 *)

PreCycles(w, repeat_block) ==
    IF Has(w, repeat_block.repeats) THEN w[repeat_block.repeats] ELSE 1

(* lines 594-600; Vi, Vf and Vr are bound in every member of Bindings *)
RangeVal(w, sym) == w[sym]

steps_in_loop_open(start_val, end_val, step_val) ==
    Abs(end_val - start_val) \div Abs(step_val)

(* line 602 *)
steps_in_loop(start_val, end_val, step_val) ==
    (Abs(end_val - start_val) \div Abs(step_val)) + 1

RECURSIVE PreLoops(_, _, _, _)
PreLoops(w, cycles, loops, total) ==
    IF loops = << >> THEN total
    ELSE LET fl == Head(loops)
         IN  PreLoops(w, cycles, Tail(loops),
                 total + cycles * steps_in_loop(RangeVal(w, fl.start),
                                                RangeVal(w, fl.end),
                                                RangeVal(w, fl.step)))

RECURSIVE PreBlocks(_, _, _)
PreBlocks(w, blocks, total) ==
    IF blocks = << >> THEN total
    ELSE PreBlocks(w, Tail(blocks),
             PreLoops(w, PreCycles(w, Head(blocks)), Head(blocks).for_loops, total))

(* line 602 divides by abs(step_val): ZeroDivisionError on a step of 0 *)
PreRunRaises(w, blocks) ==
    \E i \in DOMAIN blocks : \E j \in DOMAIN blocks[i].for_loops :
        RangeVal(w, blocks[i].for_loops[j].step) = 0

----------------------------------------------------------------------------
(* Execution pass, lines 609-648 *)

(* line 610: repeat_block.get("repeat_var", "C") *)
ExecRepeatVar(repeat_block) ==
    IF "repeat_var" \in DOMAIN repeat_block THEN repeat_block.repeat_var ELSE "C"

(* lines 611-612 *)
ExecCycles(w, repeat_block) ==
    LET repeat_var == ExecRepeatVar(repeat_block)
    IN  IF Has(w, repeat_var) THEN w[repeat_var] ELSE 1

(* lines 626-642: scan of the command list; time.sleep raises ValueError   *)
(* on a negative length, which ends the scan                               *)
RECURSIVE ScanCommands(_, _, _, _)
ScanCommands(w, cmds, r, d) ==
    IF cmds = << >> THEN [r_val |-> r, delay_val |-> d, error |-> ""]
    ELSE LET cmd == Head(cmds)
         IN  IF "mean" \in DOMAIN cmd
               THEN ScanCommands(w, Tail(cmds),
                        IF Has(w, cmd.mean) THEN w[cmd.mean] ELSE 1, d)
             ELSE IF "delay" \in DOMAIN cmd
               THEN LET dv == IF Has(w, cmd.delay) THEN w[cmd.delay] ELSE 1
                    IN  IF dv < 0
                          THEN [r_val |-> r, delay_val |-> dv, error |-> "ValueError"]
                          ELSE ScanCommands(w, Tail(cmds), r, dv)
             ELSE ScanCommands(w, Tail(cmds), r, d)

(* lines 620-622 and 644-648 for one for loop *)
LoopSweep(w, for_loop) ==
    DirectedSweep(RangeVal(w, for_loop.start), RangeVal(w, for_loop.end),
                  RangeVal(w, for_loop.step))

----------------------------------------------------------------------------
(* Instrument primitives, lines 505-525 *)

DebugResponse == <<10, -2>>

RECURSIVE Pow10(_)
Pow10(n) == IF n <= 0 THEN 1 ELSE 10 * Pow10(n - 1)

(* line 521, value * 10 ** exp, in units of 10^-2 A *)
CurrentOf(response) == response[1] * Pow10(response[2] + 2)

(* setVoltage: prints when debugging; otherwise formats the name V, which  *)
(* is bound neither in setVoltage nor in any enclosing scope               *)
setVoltage(debugging, voltage) ==
    IF debugging THEN [error |-> "", sent |-> <<"set", voltage>>]
                 ELSE [error |-> "NameError:V", sent |-> << >>]

(* line 664, writer.writerow([V, I_mean]) *)
SampleRow_swapped(V, I_mean) == <<I_mean, V>>

SampleRow(V, I_mean) == <<V, I_mean>>

(* sum(currents) / len(currents), line 661 *)
Mean(cs) == SumSeq(cs) \div Len(cs)

----------------------------------------------------------------------------
(* The task locals and the histories before a run *)
EngineStart ==
    /\ pc = "idle"
    /\ error = ""
    /\ continue_method = Unset
    /\ csv_rows = << >>
    /\ total_steps = 0
    /\ step_counter = 0
    /\ block_i = 1
    /\ cycles_val = 0
    /\ c = 0
    /\ loop_i = 1
    /\ r_val = 1
    /\ delay_val = 0
    /\ V_values = << >>
    /\ v_i = 1
    /\ currents = << >>
    /\ progress_bar = <<0, 1>>
    /\ passes = << >>
    /\ begun = << >>
    /\ trace = << >>

Aside == <<call, returned, result, runs, folder, device_log>>

NoCall ==
    /\ call = [fn |-> "none"]
    /\ returned = FALSE
    /\ result = << >>

NoRuns ==
    /\ runs = << >>
    /\ folder = << >>
    /\ device_log = << >>

Init ==
    /\ DEBUGGING \in BOOLEAN
    /\ process_parsed \in Programs
    /\ input_widgets \in Bindings
    /\ EngineStart
    /\ NoCall
    /\ NoRuns

Inputs == <<DEBUGGING, process_parsed, input_widgets>>
SweepState == <<block_i, cycles_val, c, loop_i, r_val, delay_val, V_values, v_i,
                currents>>

Raise_swallowed(exc) ==
    /\ error' = exc
    /\ UNCHANGED pc

(* An exception leaves task: the with block closes the file, lines 677-679 *)
(* are not reached and the thread ends                                     *)
Raise(exc) ==
    /\ pc' = "failed"
    /\ error' = exc

(* run_method up to line 541: the name continue_method read at line 540    *)
(* is local to task and to describe_process only                           *)
run_method ==
    /\ pc = "idle"
    /\ \E valid \in BOOLEAN :
          IF valid THEN /\ pc' = "handler_error"
                        /\ error' = "NameError:continue_method"
                   ELSE /\ pc' = "returned"
                        /\ error' = ""
    /\ UNCHANGED <<Inputs, Aside, continue_method, csv_rows, total_steps, step_counter,
                   SweepState, progress_bar, passes, begun, trace>>

(* task, lines 543-554: the thread body; the confirmation box is shown     *)
(* once user, project and experiment name are present                      *)
task_describe ==
    /\ pc = "idle"
    /\ \E info \in BOOLEAN :
          IF info THEN /\ \E answer \in {"True", "False"} : continue_method' = answer
                       /\ pc' = "prepare"
                  ELSE /\ pc' = "returned"
                       /\ UNCHANGED continue_method
    /\ UNCHANGED <<Inputs, Aside, error, csv_rows, total_steps, step_counter,
                   SweepState, progress_bar, passes, begun, trace>>

(* task, lines 556-607: file created and header written, then the pre-run  *)
(* total; nothing reads continue_method                                    *)
task_prerun ==
    /\ pc = "prepare"
    /\ csv_rows' = <<HeaderRow>>
    /\ IF PreRunRaises(input_widgets, process_parsed)
         THEN /\ Raise("ZeroDivisionError")
              /\ UNCHANGED <<total_steps, block_i>>
         ELSE /\ total_steps' = PreBlocks(input_widgets, process_parsed, 0)
              /\ block_i' = 1
              /\ pc' = "block"
              /\ UNCHANGED error
    /\ step_counter' = 0
    /\ UNCHANGED <<Inputs, Aside, continue_method, cycles_val, c, loop_i, r_val,
                   delay_val, V_values, v_i, currents, progress_bar, passes, begun,
                   trace>>

(* lines 609-615: head of the loop over repeat blocks *)
repeat_block ==
    /\ pc = "block"
    /\ block_i <= Len(process_parsed)
    /\ cycles_val' = ExecCycles(input_widgets, process_parsed[block_i])
    /\ c' = 0
    /\ passes' = Append(passes, 0)
    /\ pc' = "cycle"
    /\ UNCHANGED <<Inputs, Aside, error, continue_method, csv_rows, total_steps,
                   step_counter, block_i, loop_i, r_val, delay_val, V_values, v_i,
                   currents, progress_bar, begun, trace>>

(* lines 615-618: for c in range(cycles_val) *)
cycle ==
    /\ pc = "cycle"
    /\ IF c < cycles_val
         THEN /\ loop_i' = 1
              /\ passes' = [passes EXCEPT ![Len(passes)] = @ + 1]
              /\ pc' = "for_loop"
              /\ UNCHANGED block_i
         ELSE /\ block_i' = block_i + 1
              /\ pc' = "block"
              /\ UNCHANGED <<loop_i, passes>>
    /\ UNCHANGED <<Inputs, Aside, error, continue_method, csv_rows, total_steps,
                   step_counter, cycles_val, c, r_val, delay_val, V_values, v_i,
                   currents, progress_bar, begun, trace>>

(* lines 618-648: one for loop of the pass: bounds, command scan, sweep *)
for_loop ==
    /\ pc = "for_loop"
    /\ LET loops == process_parsed[block_i].for_loops
       IN  IF loop_i <= Len(loops)
             THEN LET scan == ScanCommands(input_widgets, loops[loop_i].commands, 1, 0)
                  IN  /\ r_val' = scan.r_val
                      /\ delay_val' = scan.delay_val
                      /\ IF scan.error # ""
                           THEN /\ Raise(scan.error)
                                /\ UNCHANGED <<V_values, v_i>>
                           ELSE /\ V_values' = LoopSweep(input_widgets, loops[loop_i])
                                /\ v_i' = 1
                                /\ pc' = "voltage"
                                /\ UNCHANGED error
                      /\ UNCHANGED c
             ELSE /\ c' = c + 1
                  /\ pc' = "cycle"
                  /\ UNCHANGED <<error, r_val, delay_val, V_values, v_i>>
    /\ UNCHANGED <<Inputs, Aside, continue_method, csv_rows, total_steps, step_counter,
                   block_i, cycles_val, loop_i, currents, progress_bar, passes, begun,
                   trace>>

(* lines 651-656: for V in V_values: setVoltage(V), settle, currents = [] *)
voltage ==
    /\ pc = "voltage"
    /\ IF v_i <= Len(V_values)
         THEN LET res == setVoltage(DEBUGGING, V_values[v_i])
              IN  /\ begun' = Append(begun, <<V_values[v_i], r_val>>)
                  /\ IF res.error # ""
                       THEN /\ Raise(res.error)
                            /\ UNCHANGED <<trace, currents, loop_i>>
                       ELSE /\ trace' = Append(trace, res.sent)
                            /\ currents' = << >>
                            /\ pc' = "read"
                            /\ UNCHANGED <<error, loop_i>>
         ELSE /\ loop_i' = loop_i + 1
              /\ pc' = "for_loop"
              /\ UNCHANGED <<error, trace, currents, begun>>
    /\ UNCHANGED <<Inputs, Aside, continue_method, csv_rows, total_steps, step_counter,
                   block_i, cycles_val, c, r_val, delay_val, V_values, v_i,
                   progress_bar, passes>>

(* lines 657-659 and 512-525: one reading of the r_val *)
read ==
    /\ pc = "read"
    /\ Len(currents) < r_val
    /\ IF DEBUGGING
         THEN /\ currents' = Append(currents, CurrentOf(DebugResponse))
              /\ trace' = Append(trace, <<"read", CurrentOf(DebugResponse)>>)
              /\ UNCHANGED <<pc, error>>
         ELSE \E response \in {<<10, -2>>, <<0>>} :
                 IF Len(response) = 2
                   THEN /\ currents' = Append(currents, CurrentOf(response))
                        /\ trace' = Append(trace, <<"read", CurrentOf(response)>>)
                        /\ UNCHANGED <<pc, error>>
                   ELSE /\ Raise("UnboundLocalError")
                        /\ UNCHANGED <<currents, trace>>
    /\ UNCHANGED <<Inputs, Aside, continue_method, csv_rows, total_steps, step_counter,
                   block_i, cycles_val, c, loop_i, r_val, delay_val, V_values, v_i,
                   progress_bar, passes, begun>>

(* lines 661-671: the mean, the csv row, the flush *)
record ==
    /\ pc = "read"
    /\ Len(currents) >= r_val
    /\ IF currents = << >>
         THEN /\ Raise("ZeroDivisionError")
              /\ UNCHANGED <<csv_rows, trace>>
         ELSE /\ csv_rows' = Append(csv_rows, SampleRow(V_values[v_i], Mean(currents)))
              /\ trace' = Append(trace, <<"append", V_values[v_i], Mean(currents)>>)
              /\ pc' = "progress"
              /\ UNCHANGED error
    /\ UNCHANGED <<Inputs, Aside, continue_method, total_steps, step_counter, SweepState,
                   progress_bar, passes, begun>>

(* lines 673-675 *)
progress ==
    /\ pc = "progress"
    /\ step_counter' = step_counter + 1
    /\ IF total_steps = 0
         THEN /\ Raise("ZeroDivisionError")
              /\ UNCHANGED <<progress_bar, trace, v_i>>
         ELSE /\ progress_bar' = <<step_counter + 1, total_steps>>
              /\ trace' = Append(trace, <<"progress", step_counter + 1, total_steps>>)
              /\ v_i' = v_i + 1
              /\ pc' = "voltage"
              /\ UNCHANGED error
    /\ UNCHANGED <<Inputs, Aside, continue_method, csv_rows, total_steps, block_i,
                   cycles_val, c, loop_i, r_val, delay_val, V_values, currents,
                   passes, begun>>

(* lines 677-679: after the last repeat block *)
complete ==
    /\ pc = "block"
    /\ block_i > Len(process_parsed)
    /\ progress_bar' = <<1, 1>>
    /\ trace' = Append(trace, <<"complete">>)
    /\ pc' = "done"
    /\ UNCHANGED <<Inputs, Aside, error, continue_method, csv_rows, total_steps,
                   step_counter, SweepState, passes, begun>>

Next ==
    \/ run_method
    \/ task_describe
    \/ task_prerun
    \/ repeat_block
    \/ cycle
    \/ for_loop
    \/ voltage
    \/ read
    \/ record
    \/ progress
    \/ complete

Spec == Init /\ [][Next]_vars

----------------------------------------------------------------------------
(* Vocabulary of the properties *)

RECURSIVE Concat(_)
Concat(ss) == IF ss = << >> THEN << >> ELSE Head(ss) \o Concat(Tail(ss))

RECURSIVE Repeated(_, _)
Repeated(seq, n) == IF n <= 0 THEN << >> ELSE seq \o Repeated(seq, n - 1)

Samples == IF csv_rows = << >> THEN << >> ELSE Tail(csv_rows)
SampleVoltages == [k \in 1..Len(Samples) |-> Samples[k][1]]

IsProgress(e) == e[1] = "progress"
IsReport(e) == e[1] \in {"progress", "complete"}
ProgressReports == SelectSeq(trace, IsProgress)

(* the fractions given to progress_bar.set, line 674 and line 678 *)
Fractions ==
    LET reps == SelectSeq(trace, IsReport)
    IN  [k \in 1..Len(reps) |->
            IF reps[k][1] = "complete" THEN <<1, 1>> ELSE <<reps[k][2], reps[k][3]>>]

Sgn(x) == IF x < 0 THEN -1 ELSE 1
FracLeq(p, q) == p[1] * q[2] * Sgn(p[2]) * Sgn(q[2]) <= q[1] * p[2] * Sgn(p[2]) * Sgn(q[2])
IsOne(p) == p[1] = p[2]

(* the count bound to a block's own repeat symbol *)
OwnCount(i) == input_widgets[process_parsed[i].repeats]

CurrentLoop == process_parsed[block_i].for_loops[loop_i]

InSweep == pc \in {"voltage", "read", "progress"}
Executing == pc \in {"block", "cycle", "for_loop", "voltage", "read", "progress", "done"}

(* exceptions raised inside setVoltage and readCurrent *)
InstrumentErrors == {"NameError:V", "UnboundLocalError"}

----------------------------------------------------------------------------
(* C1: when a run completes, every repeat block has made exactly n passes, *)
(* n being the integer bound to the block's own repeat symbol.             *)
C1_PassesOfOwnSymbol ==
    pc = "done" =>
        \A i \in DOMAIN process_parsed :
            Has(input_widgets, process_parsed[i].repeats) => passes[i] = OwnCount(i)

(* C2: when a run completes, the voltages of the samples in the file are   *)
(* the concatenation, over the blocks in order, over each block's passes,  *)
(* over its for loops in order, of each loop's sweep: one sample per sweep *)
(* value, in sweep order.                                                  *)
PassVoltages(blk) ==
    Concat([j \in DOMAIN blk.for_loops |-> LoopSweep(input_widgets, blk.for_loops[j])])

ExpectedVoltages ==
    Concat([i \in DOMAIN process_parsed |->
               Repeated(PassVoltages(process_parsed[i]), passes[i])])

C2_SamplesInSweepOrder ==
    pc = "done" => SampleVoltages = ExpectedVoltages

C2_Witness ==
    /\ pc = "done"
    /\ Len(process_parsed) = 2
    /\ passes = <<2, 2>>
    /\ Len(process_parsed[1].for_loops) = 2
    /\ Len(Samples) >= 8
    /\ \E k \in 1..(Len(Samples) - 1) : Samples[k][1] > Samples[k + 1][1]

(* C3: a for loop's sweep is start, start+d, start+2d, ... up to end, with *)
(* d = +|step| when start < end and d = -|step| otherwise, whatever the    *)
(* sign of the bound step.                                                 *)
SweepByMagnitude(start_val, end_val, step_val) ==
    LET d == IF start_val < end_val THEN Abs(step_val) ELSE -Abs(step_val)
        n == Abs(end_val - start_val) \div Abs(step_val)
    IN  [k \in 1..(n + 1) |-> start_val + (k - 1) * d]

C3_SweepByStepMagnitude ==
    InSweep =>
        V_values = SweepByMagnitude(input_widgets[CurrentLoop.start],
                                    input_widgets[CurrentLoop.end],
                                    input_widgets[CurrentLoop.step])

(* C4: for every sweep value taken up, the events are one setpoint         *)
(* carrying the value, then r reads, then one append of the value with the *)
(* mean of those reads, then one progress report with the incremented step *)
(* counter; nothing else in between; only the group of the value in        *)
(* progress may be incomplete, and its setpoint has been commanded.        *)
SlotOK(tr, p, V, r, k) ==
    IF p = 1 THEN tr[p] = <<"set", V>>
    ELSE IF p <= r + 1 THEN tr[p][1] = "read"
    ELSE IF p = r + 2
      THEN tr[p] = <<"append", V, SumSeq([q \in 1..r |-> tr[q + 1][2]]) \div r>>
    ELSE tr[p] = <<"progress", k, total_steps>>

RECURSIVE Conforms(_, _, _)
Conforms(tr, vals, k) ==
    IF vals = << >> THEN tr = << >> \/ tr = << <<"complete">> >>
    ELSE LET V == Head(vals)[1]
             r == Head(vals)[2]
             n == r + 3
         IN  IF r >= 1 /\ Len(tr) >= n
               THEN /\ \A p \in 1..n : SlotOK(tr, p, V, r, k)
                    /\ Conforms(SubSeq(tr, n + 1, Len(tr)), Tail(vals), k + 1)
               ELSE /\ Tail(vals) = << >>
                    /\ Len(tr) >= 1
                    /\ \A p \in 1..Len(tr) : p <= r + 2 /\ SlotOK(tr, p, V, r, k)

C4_PerValueProtocol == Conforms(trace, begun, 1)

(* C5: total_steps is the sum over every repeat block and every for loop   *)
(* in it of cycles(repeat symbol) * (floor(|end - start| / |step|) + 1);   *)
(* it is assigned by the pre-run pass only, before any instrument or sink  *)
(* event, and has that value in every later state.                         *)
LoopIndex ==
    UNION { { <<i, j>> : j \in DOMAIN process_parsed[i].for_loops } :
              i \in DOMAIN process_parsed }

CyclesOf(i) ==
    IF Has(input_widgets, process_parsed[i].repeats) THEN OwnCount(i) ELSE 1

TermOf(ij) ==
    LET fl == process_parsed[ij[1]].for_loops[ij[2]]
    IN  CyclesOf(ij[1]) *
          ((Abs(input_widgets[fl.end] - input_widgets[fl.start])
               \div Abs(input_widgets[fl.step])) + 1)

RECURSIVE SumTerms(_)
SumTerms(S) ==
    IF S = {} THEN 0
    ELSE LET ij == CHOOSE x \in S : TRUE IN TermOf(ij) + SumTerms(S \ {ij})

TotalIsTheSum ==
    (Executing \/ trace # << >>) => total_steps = SumTerms(LoopIndex)

TotalSetByPreRunOnly ==
    total_steps' # total_steps => pc = "prepare" /\ trace = << >>

C5_TotalSteps == []TotalIsTheSum /\ [][TotalSetByPreRunOnly]_vars

C5_Witness ==
    /\ trace # << >>
    /\ Len(process_parsed) = 2
    /\ Cardinality(LoopIndex) = 3
    /\ total_steps >= 6
    /\ process_parsed[1].repeats # process_parsed[2].repeats

(* C6: when a run with total_steps = T completes, the progress fractions   *)
(* reported while sweeping are exactly 1/T, 2/T, ..., T/T in that order.   *)
C6_ProgressSequence ==
    pc = "done" =>
        /\ Len(ProgressReports) = (IF total_steps > 0 THEN total_steps ELSE 0)
        /\ \A k \in 1..Len(ProgressReports) :
               ProgressReports[k] = <<"progress", k, total_steps>>

(* C7: the reported fraction never decreases; a run that failed has not    *)
(* reported 1.0 and a run that completed has.                              *)
C7_MonotoneAndOneIffComplete ==
    /\ \A k \in 1..(Len(Fractions) - 1) : FracLeq(Fractions[k], Fractions[k + 1])
    /\ pc = "failed" => \A k \in 1..Len(Fractions) : ~IsOne(Fractions[k])
    /\ pc = "done" => \E k \in 1..Len(Fractions) : IsOne(Fractions[k])

(* C8: every reported fraction lies in 0..1: total_steps >= 1 whenever a   *)
(* fraction is computed, and step_counter <= total_steps in every state.   *)
C8_FractionInUnitRange ==
    /\ pc = "progress" => total_steps >= 1
    /\ step_counter <= total_steps
    /\ \A k \in 1..Len(ProgressReports) :
           /\ ProgressReports[k][3] >= 1
           /\ 0 <= ProgressReports[k][2]
           /\ ProgressReports[k][2] <= ProgressReports[k][3]

(* C9: once setVoltage or readCurrent has raised while the k-th sweep      *)
(* value was being processed, the run is over and failed: the file holds   *)
(* the k-1 samples of the earlier values and none for the k-th, no         *)
(* completion is reported and no step of the run is left to take.          *)
C9_InstrumentFailureStopsRun ==
    error \in InstrumentErrors =>
        /\ pc = "failed"
        /\ Len(begun) >= 1
        /\ SampleVoltages = [k \in 1..(Len(begun) - 1) |-> begun[k][1]]
        /\ \A k \in 1..Len(trace) : trace[k][1] # "complete"
        /\ ~ENABLED Next

C9_Witness ==
    /\ pc = "failed"
    /\ error = "NameError:V"
    /\ Len(begun) = 1
    /\ csv_rows = <<HeaderRow>>
    /\ trace = << >>

(* C10: once the operator has declined the plan, the run performs no       *)
(* instrument operation, creates no file, appends no sample and reports    *)
(* no progress.                                                            *)
C10_DeclineHasNoEffect ==
    continue_method = "False" =>
        /\ csv_rows = << >>
        /\ trace = << >>
        /\ progress_bar = <<0, 1>>

-----------------------------------------------------------------------------
(* Functions of the module applied on their own.  The task is at rest;     *)
(* `call` holds the arguments, an action applies the function once and     *)
(* stores what it returned in `result`.                                     *)

EngineAtRest ==
    /\ DEBUGGING = TRUE
    /\ process_parsed = << >>
    /\ input_widgets = << >>
    /\ EngineStart
    /\ NoRuns

Engine == <<Inputs, pc, error, continue_method, csv_rows, total_steps,
            step_counter, block_i, cycles_val, c, loop_i, r_val, delay_val,
            V_values, v_i, currents, progress_bar, passes, begun, trace,
            runs, folder, device_log>>

Return(value) ==
    /\ ~returned
    /\ returned' = TRUE
    /\ result' = value
    /\ UNCHANGED <<call, Engine>>

-----------------------------------------------------------------------------
(* Resolution of the loop-control symbols of one repeat block and one of   *)
(* its for loops, as the pre-run pass (lines 588-600) and the execution    *)
(* pass (lines 609-622) do it.  Range values are floats; a bound text is   *)
(* an integer numeral, so every value is a whole number of tenths.         *)

(* float(widget.get()) in tenths *)
Tenths(v) == 10 * v

(* lines 594-600: 0.0, 1.0 and 0.1 for a symbol without a widget *)
PreRange(w, sym, default) == IF Has(w, sym) THEN Tenths(w[sym]) ELSE default

PreResolve(w, blk, fl) ==
    [count |-> PreCycles(w, blk),
     start |-> PreRange(w, fl.start, 0),
     end   |-> PreRange(w, fl.end, 10),
     step  |-> PreRange(w, fl.step, 1)]

(* lines 620-622: 0, 1 and 0.1 for a symbol that is no key of the mapping *)
ExecRange(w, sym, default) == IF sym \in DOMAIN w THEN Tenths(w[sym]) ELSE default

ExecResolve(w, blk, fl) ==
    [count |-> ExecCycles(w, blk),
     start |-> ExecRange(w, fl.start, 0),
     end   |-> ExecRange(w, fl.end, 10),
     step  |-> ExecRange(w, fl.step, 1)]

(* Mappings in which any of the loop-control symbols may be missing *)
ControlSymbols == {"C", "N", "Vi", "Vf", "Vr"}

ControlVals(sym) ==
    CASE sym \in {"C", "N"} -> CycleVals
      [] sym = "Vi"         -> StartVals
      [] sym = "Vf"         -> VoltVals
      [] OTHER              -> StepVals

PartialBindings ==
    UNION { {w \in [D -> CycleVals \cup VoltVals \cup StepVals] :
                \A sym \in D : w[sym] \in ControlVals(sym)} :
            D \in SUBSET ControlSymbols }

ResolveCalls ==
    [fn : {"resolve"}, w : PartialBindings,
     block : {[repeats |-> rv, for_loops |-> <<FwdLoop>>] : rv \in {"C", "N"}}]

InitResolve ==
    /\ EngineAtRest
    /\ call \in ResolveCalls
    /\ returned = FALSE
    /\ result = << >>

resolve ==
    /\ call.fn = "resolve"
    /\ Return([pre  |-> PreResolve(call.w, call.block, call.block.for_loops[1]),
               exec |-> ExecResolve(call.w, call.block, call.block.for_loops[1])])

SpecResolve == InitResolve /\ [][resolve]_vars

Resolved == call.fn = "resolve" /\ returned

AbsentGivesDefault(r) ==
    LET fl == call.block.for_loops[1]
    IN  /\ ~Has(call.w, call.block.repeats) => r.count = 1
        /\ ~Has(call.w, fl.start) => r.start = 0
        /\ ~Has(call.w, fl.end)   => r.end = 10
        /\ ~Has(call.w, fl.step)  => r.step = 1

(* C11: a symbol absent from the bindings resolves to its default (count   *)
(* 1, start 0.0, end 1.0, step 0.1) in the pre-run pass and in the         *)
(* execution pass, and the two passes resolve every symbol to the same     *)
(* value.                                                                   *)
C11_AbsentSymbolsResolveAlike ==
    Resolved =>
        /\ AbsentGivesDefault(result.pre)
        /\ AbsentGivesDefault(result.exec)
        /\ result.pre = result.exec

-----------------------------------------------------------------------------
(* split_commands, lines 374-391 (the same function is lines 5-22 of       *)
(* Example.py).  A text is a sequence of one-character strings.            *)

MaxText == 5

SplitAlphabet == {"a", ",", "(", ")"}

TextsOver(alphabet, n) == UNION {[1..k -> alphabet] : k \in 0..n}

(* The command list of the example program, and one with a comma inside  *)
(* parentheses                                                             *)
ExampleCommands ==
    <<"M", "E", "A", "N", "(", "R", ")", ",", "D", "E", "L", "A", "Y", "(",
    "D", ")", ",", "O", "U", "T", "P", "U", "T", "(", "V", "o", "u", "t",
    "=", "V", ",", "I", "o", "u", "t", "=", "I", ")">>

NestedCommas == <<"F", "(", "A", ",", "B", ")", ",", "G", "(", "C", ")">>

SplitTexts == TextsOver(SplitAlphabet, MaxText) \cup {ExampleCommands, NestedCommas}

(* lines 378-381 *)
Count(parens, ch) ==
    IF ch = "(" THEN parens + 1 ELSE IF ch = ")" THEN parens - 1 ELSE parens

SplitsHere_anywhere(ch, parens) == ch = ","

(* line 383 *)
SplitsHere(ch, parens) == ch = "," /\ parens = 0

Emit_dropped(res, current) == res

(* lines 388-389 *)
Emit(res, current) == IF current /= << >> THEN Append(res, current) ELSE res

RECURSIVE split_loop(_, _, _, _)
split_loop(rest, res, current, parens) ==
    IF rest = << >> THEN Emit(res, current)
    ELSE LET ch == Head(rest)
             p  == Count(parens, ch)
         IN  IF SplitsHere(ch, p)
               THEN split_loop(Tail(rest), Append(res, current), << >>, p)
               ELSE split_loop(Tail(rest), res, Append(current, ch), p)

split_commands(cmd_str) == split_loop(cmd_str, << >>, << >>, 0)

InitSplit ==
    /\ EngineAtRest
    /\ call \in [fn : {"split_commands"}, cmd_str : SplitTexts]
    /\ returned = FALSE
    /\ result = << >>

split ==
    /\ call.fn = "split_commands"
    /\ Return(split_commands(call.cmd_str))

SpecSplit == InitSplit /\ [][split]_vars

SplitDone == call.fn = "split_commands" /\ returned

(* Signed depth after the first i characters of a text *)
Depth(text, i) ==
    Cardinality({j \in 1..i : text[j] = "("}) - Cardinality({j \in 1..i : text[j] = ")"})

TopCommas(text) == {i \in 1..Len(text) : text[i] = "," /\ Depth(text, i) = 0}

(* The k-th member of a set of positions, in increasing order *)
Nth(P, k) == CHOOSE i \in P : Cardinality({j \in P : j < i}) = k - 1

(* The text between the (k-1)-th and the k-th position of P, the ends of   *)
(* the text standing for the 0-th and the (|P|+1)-th                        *)
Piece(text, P, k) ==
    LET from == IF k = 1 THEN 1 ELSE Nth(P, k - 1) + 1
        to   == IF k = Cardinality(P) + 1 THEN Len(text) ELSE Nth(P, k) - 1
    IN  SubSeq(text, from, to)

CutAt(text, P) ==
    LET n == Cardinality(P)
        tail == Piece(text, P, n + 1)
    IN  [k \in 1..n |-> Piece(text, P, k)] \o (IF tail = << >> THEN << >> ELSE <<tail>>)

(* C13: split_commands cuts its input at the commas of signed depth 0 and  *)
(* nowhere else, the segments in input order; the command list of the      *)
(* example gives three segments and "F(A,B),G(C)" gives F(A,B) and G(C).   *)
C13_SplitAtDepthZeroCommas ==
    SplitDone =>
        /\ result = CutAt(call.cmd_str, TopCommas(call.cmd_str))
        /\ call.cmd_str = ExampleCommands =>
               result = <<<<"M", "E", "A", "N", "(", "R", ")">>,
                          <<"D", "E", "L", "A", "Y", "(", "D", ")">>,
                          <<"O", "U", "T", "P", "U", "T", "(", "V", "o", "u", "t", "=", "V", ",", "I", "o", "u", "t", "=", "I", ")">>>>
        /\ call.cmd_str = NestedCommas =>
               result = <<<<"F", "(", "A", ",", "B", ")">>, <<"G", "(", "C", ")">>>>

(* a comma kept inside a segment next to a comma that was cut at *)
C13_Witness ==
    /\ SplitDone
    /\ call.cmd_str = NestedCommas
    /\ Len(result) = 2

Join(segs) ==
    IF segs = << >> THEN << >>
    ELSE Concat(<<Head(segs)>> \o [k \in 1..(Len(segs) - 1) |-> <<",">> \o segs[k + 1]])

Without(text, P) ==
    LET keep == {i \in 1..Len(text) : i \notin P}
    IN  [k \in 1..Cardinality(keep) |-> text[Nth(keep, k)]]

EndsWithTopComma(text) == text /= << >> /\ Len(text) \in TopCommas(text)

LastTopComma(text) ==
    IF TopCommas(text) = {} THEN 0 ELSE Nth(TopCommas(text), Cardinality(TopCommas(text)))

(* C20: split_commands loses no character but the commas it cuts at: the   *)
(* segments concatenated are the input without its depth-0 commas, no      *)
(* segment holds a depth-0 comma, a non-empty tail after the last cut is   *)
(* the final segment, and joining the segments with "," gives the input    *)
(* back unless the input ends with a depth-0 comma.                         *)
C20_SplitLosesNoCharacter ==
    SplitDone =>
        LET text == call.cmd_str
            tail == SubSeq(text, LastTopComma(text) + 1, Len(text))
        IN  /\ Concat(result) = Without(text, TopCommas(text))
            /\ \A k \in 1..Len(result) : TopCommas(result[k]) = {}
            /\ tail /= << >> => result /= << >> /\ result[Len(result)] = tail
            /\ ~EndsWithTopComma(text) => Join(result) = text

(* an unclosed parenthesis leaves a tail that holds a comma *)
C20_Witness ==
    /\ SplitDone
    /\ call.cmd_str = <<"a", ",", "(", "a", ",">>
    /\ result = <<<<"a">>, <<"(", "a", ",">>>>

-----------------------------------------------------------------------------
(* parse_process, lines 393-439 (the same function is lines 24-70 of       *)
(* Example.py), on texts as sequences of one-character strings.  The       *)
(* regular expressions are modelled by what re matches: a greedy class run *)
(* that must be followed by a character outside the class is the longest   *)
(* run, a lazy body ends at the first position where the rest of the       *)
(* pattern matches, and findall resumes after the end of a match.          *)

LowerLetters ==
    <<"a", "b", "c", "d", "e", "f", "g", "h", "i", "j", "k", "l", "m", "n",
    "o", "p", "q", "r", "s", "t", "u", "v", "w", "x", "y", "z">>

UpperLetters ==
    <<"A", "B", "C", "D", "E", "F", "G", "H", "I", "J", "K", "L", "M", "N",
    "O", "P", "Q", "R", "S", "T", "U", "V", "W", "X", "Y", "Z">>

Digits == {"0", "1", "2", "3", "4", "5", "6", "7", "8", "9"}

Range(seq) == {seq[k] : k \in 1..Len(seq)}

(* the class of word characters *)
IsWord(ch) == ch \in Range(LowerLetters) \cup Range(UpperLetters) \cup Digits \cup {"_"}

(* the character classes of the patterns: word characters, any character *)
(* but ",", any character but ")"                                          *)
InClass(ch, class) ==
    CASE class = "word"     -> IsWord(ch)
      [] class = "no_comma" -> ch /= ","
      [] class = "no_close" -> ch /= ")"

(* str.upper(), line 410 *)
upper(text) ==
    [k \in 1..Len(text) |->
        IF text[k] \in Range(LowerLetters)
          THEN UpperLetters[CHOOSE n \in 1..Len(LowerLetters) : LowerLetters[n] = text[k]]
          ELSE text[k]]

Min(S) == CHOOSE x \in S : \A y \in S : x <= y
Max(S) == CHOOSE x \in S : \A y \in S : x >= y

(* the text has the literal at position i *)
LitAt(text, i, lit) ==
    /\ i + Len(lit) - 1 <= Len(text)
    /\ SubSeq(text, i, i + Len(lit) - 1) = lit

(* last position of the longest run of class characters from i (i - 1     *)
(* when the run is empty)                                                  *)
RunEnd(text, i, class) ==
    LET stops == {k \in i..Len(text) : ~InClass(text[k], class)}
    IN  IF stops = {} THEN Len(text) ELSE Min(stops) - 1

(* line 394: only the space and the newline are removed *)
replace(text, ch) == SelectSeq(text, LAMBDA x : x /= ch)

Preprocess(process_str) == replace(replace(process_str, " "), "\n")

RepeatOpen == <<"R", "E", "P", "E", "A", "T", "(">>
ForOpen == <<"F", "O", "R", "_", "R", "A", "N", "G", "E", "V", "(">>

NoMatch == [ok |-> FALSE, groups |-> << >>, end |-> 0]

BodyEnds_first(text, b) == {k \in b..Len(text) : text[k] = "}"}

(* a "}" followed by ":" or by the end of the text *)
BodyEnds(text, b) ==
    {k \in b..Len(text) : text[k] = "}" /\ (k = Len(text) \/ text[k + 1] = ":")}

(* line 395, the repeat pattern tried at position i: "REPEAT(", a word    *)
(* run, ")", "{", and the shortest body whose "}" is followed by ":" or by *)
(* the end of the text                                                     *)
MatchRepeat(text, i) ==
    LET j == i + Len(RepeatOpen)
        e == RunEnd(text, j, "word")
        b == e + 3
        ends == BodyEnds(text, b)
    IN  IF /\ LitAt(text, i, RepeatOpen)
           /\ e >= j
           /\ LitAt(text, e + 1, <<")", "{">>)
           /\ ends /= {}
          THEN [ok |-> TRUE,
                groups |-> <<SubSeq(text, j, e), SubSeq(text, b, Min(ends) - 1)>>,
                end |-> Min(ends)]
          ELSE NoMatch

(* line 400, the for pattern tried at position i: "FOR_RANGEV(", two runs *)
(* without a comma each followed by ",", a run without ")", then ")", "{"  *)
(* and the shortest body that a "}" follows                                *)
MatchFor(text, i) ==
    LET j1 == i + Len(ForOpen)
        e1 == RunEnd(text, j1, "no_comma")
        j2 == e1 + 2
        e2 == RunEnd(text, j2, "no_comma")
        j3 == e2 + 2
        e3 == RunEnd(text, j3, "no_close")
        b  == e3 + 3
        ends == {k \in b..Len(text) : text[k] = "}"}
    IN  IF /\ LitAt(text, i, ForOpen)
           /\ e1 >= j1 /\ e1 < Len(text)
           /\ e2 >= j2 /\ e2 < Len(text)
           /\ e3 >= j3
           /\ LitAt(text, e3 + 1, <<")", "{">>)
           /\ ends /= {}
          THEN [ok |-> TRUE,
                groups |-> <<SubSeq(text, j1, e1), SubSeq(text, j2, e2),
                             SubSeq(text, j3, e3), SubSeq(text, b, Min(ends) - 1)>>,
                end |-> Min(ends)]
          ELSE NoMatch

(* line 408: re.match tries the pattern at the start of the segment only  *)
(* and need not reach its end: a word run, "(", then anything up to the    *)
(* last ")" of the segment                                                 *)
MatchCommand(cmd) ==
    LET e == RunEnd(cmd, 1, "word")
        closes == {k \in (e + 2)..Len(cmd) : cmd[k] = ")"}
    IN  IF /\ e >= 1
           /\ LitAt(cmd, e + 1, <<"(">>)
           /\ closes /= {}
          THEN [ok |-> TRUE,
                groups |-> <<SubSeq(cmd, 1, e), SubSeq(cmd, e + 2, Max(closes) - 1)>>,
                end |-> Max(closes)]
          ELSE NoMatch

(* lines 418-423: the pairs of an OUTPUT, a later key overriding *)
RECURSIVE OutputPairs(_, _)
OutputPairs(pairs, outputs) ==
    IF pairs = << >> THEN outputs
    ELSE LET pair == Head(pairs)
             eqs  == {k \in 1..Len(pair) : pair[k] = "="}
         IN  IF eqs = {} THEN OutputPairs(Tail(pairs), outputs)
             ELSE LET key == SubSeq(pair, 1, Min(eqs) - 1)
                      val == SubSeq(pair, Min(eqs) + 1, Len(pair))
                  IN  OutputPairs(Tail(pairs),
                          [k \in DOMAIN outputs \cup {key} |->
                              IF k = key THEN val ELSE outputs[k]])

(* lines 407-424: the commands one segment contributes *)
Dispatch(cmd) ==
    LET cmatch == MatchCommand(cmd)
        cmd_type == upper(cmatch.groups[1])
        cmd_param == cmatch.groups[2]
    IN  IF ~cmatch.ok THEN << >>
        ELSE IF cmd_type = <<"M", "E", "A", "N">> THEN <<[mean |-> cmd_param]>>
        ELSE IF cmd_type = <<"D", "E", "L", "A", "Y">> THEN <<[delay |-> cmd_param]>>
        ELSE IF cmd_type = <<"O", "U", "T", "P", "U", "T">>
          THEN <<[outputs |-> OutputPairs(split_commands(cmd_param), << >>)]>>
        ELSE << >>

RECURSIVE Commands(_)

Commands_first(commands_raw) ==
    IF commands_raw = << >> THEN << >> ELSE Dispatch(Head(commands_raw))

Commands_stop(commands_raw) ==
    IF commands_raw = << >> \/ Dispatch(Head(commands_raw)) = << >> THEN << >>
    ELSE Dispatch(Head(commands_raw)) \o Commands(Tail(commands_raw))

Commands(commands_raw) ==
    IF commands_raw = << >> THEN << >>
    ELSE Dispatch(Head(commands_raw)) \o Commands(Tail(commands_raw))

(* lines 400-432: findall over the body of a repeat block *)
RECURSIVE ForList(_, _)
ForList(inner_content, i) ==
    IF i > Len(inner_content) THEN << >>
    ELSE LET m == MatchFor(inner_content, i)
         IN  IF m.ok
               THEN <<[start |-> m.groups[1], end |-> m.groups[2], step |-> m.groups[3],
                       commands |-> Commands(split_commands(m.groups[4]))]>>
                    \o ForList(inner_content, m.end + 1)
               ELSE ForList(inner_content, i + 1)

(* lines 396-437: findall over the preprocessed text *)
RECURSIVE RepeatList(_, _)
RepeatList(text, i) ==
    IF i > Len(text) THEN << >>
    ELSE LET m == MatchRepeat(text, i)
         IN  IF m.ok
               THEN <<[repeats |-> m.groups[1], for_loops |-> ForList(m.groups[2], 1)]>>
                    \o RepeatList(text, m.end + 1)
               ELSE RepeatList(text, i + 1)

parse_process(process_str) == RepeatList(Preprocess(process_str), 1)

-----------------------------------------------------------------------------
(* Source texts that follow the grammar of the method language: a tree of  *)
(* blocks, for loops and commands, written out with ":" between blocks,    *)
(* "," between commands and, by style, ";" between for loops, after every  *)
(* for loop, or nowhere.  A command is a name and its arguments, an        *)
(* argument <<key, val>> standing for key=val.                             *)

MaxBlocks == 2

Cmd(name, args) == [name |-> name, args |-> args]

MeanR == Cmd(<<"M", "E", "A", "N">>, <<<<<<"R">>>>>>)
MeanLower == Cmd(<<"m", "e", "a", "n">>, <<<<<<"N", "2">>>>>>)
DelayD == Cmd(<<"D", "E", "L", "A", "Y">>, <<<<<<"D">>>>>>)
OutputVI ==
    Cmd(<<"O", "U", "T", "P", "U", "T">>,
        <<<<<<"V", "o", "u", "t">>, <<"V">>>>, <<<<"I", "o", "u", "t">>, <<"I">>>>>>)
OutputV ==
    Cmd(<<"O", "u", "t", "p", "u", "t">>,
        <<<<<<"V", "o", "u", "t">>, <<"V">>>>, <<<<"k">>, <<"a", "=", "b">>>>>>)

LoopTree(start_var, end_var, step_var, commands) ==
    [start |-> start_var, end |-> end_var, step |-> step_var, commands |-> commands]

ExampleLoop == LoopTree(<<"V", "i">>, <<"V", "f">>, <<"V", "r">>, <<MeanR, DelayD, OutputVI>>)
BackLoop == LoopTree(<<"V", "f">>, <<"V", "i">>, <<"d", "V">>, <<DelayD, MeanLower>>)
PlainLoop == LoopTree(<<"V", "0">>, <<"V", "1">>, <<"V", "r">>, <<OutputV>>)

BlockTree(ident, loops) == [repeats |-> ident, for_loops |-> loops]

BlockTrees ==
    {BlockTree(<<"C">>, <<ExampleLoop>>),
     BlockTree(<<"C">>, <<ExampleLoop, BackLoop>>),
     BlockTree(<<"N">>, <<PlainLoop>>),
     BlockTree(<<"N", "_", "2">>, <<BackLoop, PlainLoop, ExampleLoop>>),
     BlockTree(<<"C">>, << >>)}

ProgramTrees == UNION {[1..n -> BlockTrees] : n \in 0..MaxBlocks}

Styles == {"none", "between", "after"}

RECURSIVE JoinWith(_, _)
JoinWith(texts, sep) ==
    IF texts = << >> THEN << >>
    ELSE IF Len(texts) = 1 THEN texts[1]
    ELSE texts[1] \o sep \o JoinWith(Tail(texts), sep)

WriteArg(arg) == IF Len(arg) = 2 THEN arg[1] \o <<"=">> \o arg[2] ELSE arg[1]

WriteCmd(cmd) ==
    cmd.name \o <<"(">> \o JoinWith([k \in 1..Len(cmd.args) |-> WriteArg(cmd.args[k])], <<",">>)
        \o <<")">>

WriteLoop(fl) ==
    ForOpen \o fl.start \o <<",">> \o fl.end \o <<",">> \o fl.step \o <<")", "{">>
        \o JoinWith([k \in 1..Len(fl.commands) |-> WriteCmd(fl.commands[k])], <<",">>)
        \o <<"}">>

WriteBlock(blk, style) ==
    LET loops == [k \in 1..Len(blk.for_loops) |-> WriteLoop(blk.for_loops[k])]
    IN  RepeatOpen \o blk.repeats \o <<")", "{">>
            \o JoinWith(loops, IF style = "none" THEN << >> ELSE <<";">>)
            \o (IF style = "after" /\ loops /= << >> THEN <<";">> ELSE << >>)
            \o <<"}">>

WriteProgram(tree, style) ==
    JoinWith([k \in 1..Len(tree) |-> WriteBlock(tree[k], style)], <<":">>)

(* process_str of Example.py, lines 74-97, and the tree it writes out *)
ExampleText ==
    <<
    "R", "E", "P", "E", "A", "T", "(", "C", ")", "{", "\n", " ", " ", " ",
    " ", "F", "O", "R", "_", "R", "A", "N", "G", "E", "V", "(", "V", "i",
    ",", "V", "f", ",", "V", "r", ")", "{", "\n", " ", " ", " ", " ", " ",
    " ", " ", " ", "M", "E", "A", "N", "(", "R", ")", ",", "\n", " ", " ",
    " ", " ", " ", " ", " ", " ", "D", "E", "L", "A", "Y", "(", "D", ")",
    ",", "\n", " ", " ", " ", " ", " ", " ", " ", " ", "O", "U", "T", "P",
    "U", "T", "(", "V", "o", "u", "t", "=", "V", ",", "I", "o", "u", "t",
    "=", "I", ")", "\n", " ", " ", " ", " ", "}", ";", "\n", " ", " ", " ",
    " ", "F", "O", "R", "_", "R", "A", "N", "G", "E", "V", "(", "V", "i",
    ",", "V", "f", ",", "V", "r", ")", "{", "\n", " ", " ", " ", " ", " ",
    " ", " ", " ", "M", "E", "A", "N", "(", "R", ")", ",", "\n", " ", " ",
    " ", " ", " ", " ", " ", " ", "D", "E", "L", "A", "Y", "(", "D", ")",
    ",", "\n", " ", " ", " ", " ", " ", " ", " ", " ", "O", "U", "T", "P",
    "U", "T", "(", "V", "o", "u", "t", "=", "V", ",", "I", "o", "u", "t",
    "=", "I", ")", "\n", " ", " ", " ", " ", "}", "\n", " ", " ", " ", " ",
    "}", ":", "\n", " ", " ", " ", " ", "R", "E", "P", "E", "A", "T", "(",
    "C", ")", "{", "\n", " ", " ", " ", " ", "F", "O", "R", "_", "R", "A",
    "N", "G", "E", "V", "(", "V", "i", ",", "V", "f", ",", "V", "r", ")",
    "{", "\n", " ", " ", " ", " ", " ", " ", " ", " ", "M", "E", "A", "N",
    "(", "R", ")", ",", "\n", " ", " ", " ", " ", " ", " ", " ", " ", "D",
    "E", "L", "A", "Y", "(", "D", ")", ",", "\n", " ", " ", " ", " ", " ",
    " ", " ", " ", "O", "U", "T", "P", "U", "T", "(", "V", "o", "u", "t",
    "=", "V", ",", "I", "o", "u", "t", "=", "I", ")", "\n", " ", " ", " ",
    " ", "}", ";", "\n", " ", " ", " ", " ", "F", "O", "R", "_", "R", "A",
    "N", "G", "E", "V", "(", "V", "i", ",", "V", "f", ",", "V", "r", ")",
    "{", "\n", " ", " ", " ", " ", " ", " ", " ", " ", "M", "E", "A", "N",
    "(", "R", ")", ",", "\n", " ", " ", " ", " ", " ", " ", " ", " ", "D",
    "E", "L", "A", "Y", "(", "D", ")", ",", "\n", " ", " ", " ", " ", " ",
    " ", " ", " ", "O", "U", "T", "P", "U", "T", "(", "V", "o", "u", "t",
    "=", "V", ",", "I", "o", "u", "t", "=", "I", ")", "\n", " ", " ", " ",
    " ", "}", "\n", "}">>

ExampleTree ==
    <<BlockTree(<<"C">>, <<ExampleLoop, ExampleLoop>>),
      BlockTree(<<"C">>, <<ExampleLoop, ExampleLoop>>)>>

ParseCalls ==
    {[fn |-> "parse_process", process_str |-> WriteProgram(tree, style), tree |-> tree] :
        tree \in ProgramTrees, style \in Styles}
    \cup {[fn |-> "parse_process", process_str |-> ExampleText, tree |-> ExampleTree]}

InitParse ==
    /\ EngineAtRest
    /\ call \in ParseCalls
    /\ returned = FALSE
    /\ result = << >>

parse ==
    /\ call.fn = "parse_process"
    /\ Return(parse_process(call.process_str))

SpecParse == InitParse /\ [][parse]_vars

ParseDone == call.fn = "parse_process" /\ returned

(* The Program a tree stands for *)
MappingOf(args) ==
    [key \in {args[k][1] : k \in 1..Len(args)} |->
        args[Max({k \in 1..Len(args) : args[k][1] = key})][2]]

CommandOf(cmd) ==
    CASE upper(cmd.name) = <<"M", "E", "A", "N">>      -> [mean |-> cmd.args[1][1]]
      [] upper(cmd.name) = <<"D", "E", "L", "A", "Y">> -> [delay |-> cmd.args[1][1]]
      [] OTHER                                         -> [outputs |-> MappingOf(cmd.args)]

ForLoopOf(fl) ==
    [start |-> fl.start, end |-> fl.end, step |-> fl.step,
     commands |-> [k \in 1..Len(fl.commands) |-> CommandOf(fl.commands[k])]]

Ranges(loops) == [k \in 1..Len(loops) |-> <<loops[k].start, loops[k].end, loops[k].step>>]

(* C14: a text of N conforming REPEAT blocks separated by ":" parses to    *)
(* exactly N RepeatBlocks, the i-th with the identifier and the for loops  *)
(* of the i-th block of the text.                                          *)
C14_OneRepeatBlockPerBlock ==
    ParseDone =>
        /\ Len(result) = Len(call.tree)
        /\ \A i \in 1..Len(call.tree) :
               /\ result[i].repeats = call.tree[i].repeats
               /\ Ranges(result[i].for_loops) = Ranges(call.tree[i].for_loops)

(* two blocks with different identifiers and different for loops *)
C14_Witness ==
    /\ ParseDone
    /\ Len(call.tree) = 2
    /\ call.tree[1] = BlockTree(<<"C">>, <<ExampleLoop, BackLoop>>)
    /\ call.tree[2] = BlockTree(<<"N">>, <<PlainLoop>>)
    /\ Len(result) = 2

ClaimedCommands ==
    <<[mean |-> <<"R">>], [delay |-> <<"D">>],
      [outputs |-> (<<"V", "o", "u", "t">> :> <<"V">>) @@ (<<"I", "o", "u", "t">> :> <<"I">>)]>>

(* C15: a conforming REPEAT body parses to one ForLoop per FOR_RANGEV, in  *)
(* order, with or without ";" between them, each with its start, end and   *)
(* step and one command per MEAN, DELAY or OUTPUT in order, an OUTPUT      *)
(* argument cut at its first "="; the command list of the example gives    *)
(* Mean(R), Delay(D), Output({Vout: V, Iout: I}).                          *)
C15_ForLoopsAndCommands ==
    ParseDone =>
        /\ \A i \in 1..Len(call.tree) :
               i <= Len(result) /\
               result[i].for_loops =
                   [k \in 1..Len(call.tree[i].for_loops) |-> ForLoopOf(call.tree[i].for_loops[k])]
        /\ call.tree = <<BlockTree(<<"C">>, <<ExampleLoop>>)>> =>
               result = <<[repeats |-> <<"C">>,
                           for_loops |-> <<[start |-> <<"V", "i">>, end |-> <<"V", "f">>,
                                            step |-> <<"V", "r">>,
                                            commands |-> ClaimedCommands]>>]>>

(* the two for loops of each block of the example, separated by ";" *)
C15_Witness ==
    /\ ParseDone
    /\ call.process_str = ExampleText
    /\ Len(result) = 2
    /\ Len(result[1].for_loops) = 2
    /\ result[2].for_loops[2].commands = ClaimedCommands

-----------------------------------------------------------------------------
(* Texts the grammar does not cover: the two-block text                    *)
(*   REPEAT(C){FOR_RANGEV(Vi,Vf,Vr){<body>};<BackLoop>}:REPEAT(N){<PlainLoop>} *)
(* with a body of up to MaxCmds pieces joined by ",", some of them no      *)
(* command, and every prefix of the one-block text of the example.         *)

MaxCmds == 3

Pieces ==
    {<<"M", "E", "A", "N", "(", "R", ")">>,
     <<"M", "E", "A", "N", "(", "R", ")", "x">>,
     <<"d", "e", "l", "a", "y", "(", "D", ")">>,
     <<"O", "U", "T", "P", "U", "T", "(", "a", "=", "b", ",", "c", ")">>,
     <<"F", "O", "O", "(", "x", ")">>,
     <<"M", "E", "A", "N", "(", "R">>,
     << >>}

Bodies == {JoinWith(pieces, <<",">>) : pieces \in UNION {[1..n -> Pieces] : n \in 0..MaxCmds}}

Framed(body) ==
    RepeatOpen \o <<"C", ")", "{">>
        \o ForOpen \o <<"V", "i", ",", "V", "f", ",", "V", "r", ")", "{">> \o body \o <<"}", ";">>
        \o WriteLoop(BackLoop) \o <<"}", ":">>
        \o WriteBlock(BlockTree(<<"N">>, <<PlainLoop>>), "between")

OneBlockText == WriteProgram(<<BlockTree(<<"C">>, <<ExampleLoop>>)>>, "between")

TolerantCalls ==
    {[fn |-> "parse_process", process_str |-> Framed(body), body |-> body, framed |-> TRUE] :
        body \in Bodies}
    \cup {[fn |-> "parse_process", process_str |-> SubSeq(OneBlockText, 1, n),
            body |-> << >>, framed |-> FALSE] : n \in 0..Len(OneBlockText)}

InitTolerant ==
    /\ EngineAtRest
    /\ call \in TolerantCalls
    /\ returned = FALSE
    /\ result = << >>

SpecTolerant == InitTolerant /\ [][parse]_vars

CommandKinds == {{"mean"}, {"delay"}, {"outputs"}}

IsProgram(program) ==
    \A i \in 1..Len(program) :
        /\ DOMAIN program[i] = {"repeats", "for_loops"}
        /\ \A k \in 1..Len(program[i].for_loops) :
               LET fl == program[i].for_loops[k]
               IN  /\ DOMAIN fl = {"start", "end", "step", "commands"}
                   /\ \A n \in 1..Len(fl.commands) : DOMAIN fl.commands[n] \in CommandKinds

(* The name of a command substring: its leading word run, when "(" follows *)
(* it and a ")" comes later; no name otherwise.  This is matching in the   *)
(* sense of re.match: the substring need not end at the ")".               *)
NameOf(segment) ==
    LET e == Max({0} \cup {k \in 1..Len(segment) : \A j \in 1..k : IsWord(segment[j])})
    IN  IF /\ e >= 1 /\ e < Len(segment) /\ segment[e + 1] = "("
           /\ \E k \in (e + 2)..Len(segment) : segment[k] = ")"
          THEN upper(SubSeq(segment, 1, e))
          ELSE << >>

KindOf(segment) ==
    CASE NameOf(segment) = <<"M", "E", "A", "N">> -> {"mean"}
      [] NameOf(segment) = <<"D", "E", "L", "A", "Y">> -> {"delay"}
      [] NameOf(segment) = <<"O", "U", "T", "P", "U", "T">> -> {"outputs"}
      [] OTHER -> {}

IsCommand(segment) == KindOf(segment) /= {}

(* the command substrings of a body and those of them that are commands *)
Segments(body) == CutAt(body, TopCommas(body))
Kept(body) == SelectSeq(Segments(body), IsCommand)

(* C18: parsing never fails and degrades by omission: every text parses to *)
(* a Program; a command substring that does not match NAME(args), or whose *)
(* upper-cased name is not MEAN, DELAY or OUTPUT, is dropped, and the      *)
(* Program is the one the text without the dropped substrings parses to:   *)
(* the other commands of the for loop keep their order and content, and    *)
(* the other for loop and the other block are as written.                  *)
C18_DegradesByOmission ==
    ParseDone =>
        /\ IsProgram(result)
        /\ call.framed =>
               LET commands == result[1].for_loops[1].commands
                   kept == Kept(call.body)
               IN  /\ Len(result) = 2
                   /\ Len(result[1].for_loops) = 2
                   /\ Len(commands) = Len(kept)
                   /\ \A k \in 1..Len(kept) : DOMAIN commands[k] = KindOf(kept[k])
                   /\ result = parse_process(Framed(JoinWith(kept, <<",">>)))
                   /\ result[1].for_loops[2] = ForLoopOf(BackLoop)
                   /\ result[2] = [repeats |-> <<"N">>, for_loops |-> <<ForLoopOf(PlainLoop)>>]

(* an unknown name between two commands *)
C18_Witness ==
    /\ ParseDone
    /\ call.framed
    /\ call.body = <<"M", "E", "A", "N", "(", "R", ")", ",", "F", "O", "O", "(", "x", ")", ",", "d", "e", "l", "a", "y", "(", "D", ")">>
    /\ result[1].for_loops[1].commands = <<[mean |-> <<"R">>], [delay |-> <<"D">>]>>

-----------------------------------------------------------------------------
(* Formatting: a conforming text with one whitespace character put between *)
(* two of its tokens.                                                      *)

Whitespace == {" ", "\t", "\r", "\n"}

TwoBlockText ==
    WriteProgram(<<BlockTree(<<"C">>, <<ExampleLoop, BackLoop>>),
                   BlockTree(<<"N">>, <<PlainLoop>>)>>, "between")

(* p characters of the text lie before a place where a token ends *)
TokenGap(text, p) ==
    /\ p \in 0..Len(text)
    /\ ~(p >= 1 /\ p < Len(text) /\ IsWord(text[p]) /\ IsWord(text[p + 1]))

Insert(text, p, ch) == SubSeq(text, 1, p) \o <<ch>> \o SubSeq(text, p + 1, Len(text))

FormattedCalls ==
    UNION {{[fn |-> "parse_process", process_str |-> Insert(text, p, ch), plain |-> text] :
                p \in {q \in 0..Len(text) : TokenGap(text, q)}, ch \in Whitespace} :
           text \in {OneBlockText, TwoBlockText}}

InitFormatted ==
    /\ EngineAtRest
    /\ call \in FormattedCalls
    /\ returned = FALSE
    /\ result = << >>

SpecFormatted == InitFormatted /\ [][parse]_vars

(* C19: formatting is insignificant to parse_process: a text with a space, *)
(* tab, carriage return or newline inserted between two tokens parses to   *)
(* the Program of the text without it.                                     *)
C19_WhitespaceInsignificant ==
    ParseDone => result = parse_process(call.plain)

-----------------------------------------------------------------------------
(* describe_process.get_val, lines 446-458.  The text of a widget is a     *)
(* sequence of characters; a number is num / den, den a power of ten.      *)

ValueAlphabet == {"1", ".", "-", "a"}

ValueTexts == TextsOver(ValueAlphabet, MaxText)

DigitVal(ch) ==
    LET numerals == <<"0", "1", "2", "3", "4", "5", "6", "7", "8", "9">>
    IN  (CHOOSE n \in 1..Len(numerals) : numerals[n] = ch) - 1

NotANumber == [ok |-> FALSE, num |-> 0, den |-> 1]

(* the digits of a numeral read from the left; no digit or any other      *)
(* character raises ValueError                                             *)
RECURSIVE ReadDigits(_, _)
ReadDigits(text, acc) ==
    IF text = << >> THEN [ok |-> TRUE, num |-> acc, den |-> 1]
    ELSE IF Head(text) \notin Digits THEN NotANumber
    ELSE ReadDigits(Tail(text), 10 * acc + DigitVal(Head(text)))

Unsigned(text) == IF text /= << >> /\ Head(text) = "-" THEN Tail(text) ELSE text
SignOf(text) == IF text /= << >> /\ Head(text) = "-" THEN -1 ELSE 1

(* int(val), line 456 *)
int(val) ==
    LET digits == Unsigned(val)
        n == ReadDigits(digits, 0)
    IN  IF digits = << >> \/ ~n.ok THEN NotANumber
        ELSE [ok |-> TRUE, num |-> SignOf(val) * n.num, den |-> 1]

(* float(val), line 454: digits with one ".", a digit on at least one side *)
float(val) ==
    LET body == Unsigned(val)
        dots == {k \in 1..Len(body) : body[k] = "."}
        whole == SubSeq(body, 1, Min(dots) - 1)
        frac == SubSeq(body, Min(dots) + 1, Len(body))
        n == ReadDigits(whole \o frac, 0)
    IN  IF dots = {} THEN int(val)
        ELSE IF whole \o frac = << >> \/ ~n.ok THEN NotANumber
        ELSE [ok |-> TRUE, num |-> SignOf(val) * n.num, den |-> Pow10(Len(frac))]

ParsesAsFloat_never(val) == FALSE

(* line 453 *)
ParsesAsFloat(val) == "." \in Range(val)

Str(text) == [kind |-> "str", text |-> text]

get_val(w, var) ==
    IF var \notin DOMAIN w THEN Str(var)
    ELSE LET val == w[var]
         IN  IF ParsesAsFloat(val)
               THEN IF float(val).ok
                      THEN [kind |-> "float", num |-> float(val).num, den |-> float(val).den]
                      ELSE Str(val)
               ELSE IF int(val).ok
                      THEN [kind |-> "int", num |-> int(val).num, den |-> 1]
                      ELSE Str(val)

ValueSymbols == {<<"R">>, <<"D">>}

InitGetVal ==
    /\ DEBUGGING = TRUE
    /\ process_parsed = << >>
    /\ input_widgets \in [{<<"R">>} -> ValueTexts]
    /\ EngineStart
    /\ NoRuns
    /\ call \in [fn : {"get_val"}, var : ValueSymbols]
    /\ returned = FALSE
    /\ result = << >>

describe_get_val ==
    /\ call.fn = "get_val"
    /\ Return(get_val(input_widgets, call.var))

SpecGetVal == InitGetVal /\ [][describe_get_val]_vars

GetValDone == call.fn = "get_val" /\ returned

(* What a text denotes, read off its shape *)
IsNumeral(text) == text /= << >> /\ \A k \in 1..Len(text) : text[k] \in Digits

RECURSIVE NumeralValue(_)
NumeralValue(text) ==
    IF text = << >> THEN 0
    ELSE DigitVal(text[1]) * Pow10(Len(text) - 1) + NumeralValue(Tail(text))

WithoutDots(text) == SelectSeq(text, LAMBDA x : x /= ".")
DotCount(text) == Cardinality({k \in 1..Len(text) : text[k] = "."})
Decimals(text) == Len(text) - Min({k \in 1..Len(text) : text[k] = "."})

IsInteger(text) == IsNumeral(Unsigned(text))
IsDecimal(text) == DotCount(Unsigned(text)) = 1 /\ IsNumeral(WithoutDots(Unsigned(text)))

ResolvedForDisplay ==
    GetValDone =>
        IF call.var \notin DOMAIN input_widgets THEN result = Str(call.var)
        ELSE LET val == input_widgets[call.var]
             IN  IF DotCount(val) > 0
                   THEN IF IsDecimal(val)
                          THEN /\ result.kind = "float"
                               /\ result.num * Pow10(Decimals(val)) =
                                      SignOf(val) * NumeralValue(WithoutDots(Unsigned(val))) * result.den
                          ELSE result = Str(val)
                   ELSE IF IsInteger(val)
                          THEN /\ result.kind = "int"
                               /\ result.den = 1
                               /\ result.num = SignOf(val) * NumeralValue(Unsigned(val))
                          ELSE result = Str(val)

GetValWritesNothing == UNCHANGED <<process_parsed, input_widgets>>

(* C16: value resolution for display never fails and changes neither the   *)
(* program nor the bindings: an unbound symbol gives the symbol name, a    *)
(* bound text with "." the text read as a floating-point number, one       *)
(* without "." the text read as an integer, and a text that cannot be read *)
(* so gives the text itself.                                               *)
C16_GetValResolves == []ResolvedForDisplay /\ [][GetValWritesNothing]_vars

C16_Witness ==
    /\ GetValDone
    /\ call.var = <<"R">>
    /\ input_widgets[<<"R">>] = <<"-", "1", ".", "1">>
    /\ result = [kind |-> "float", num |-> -11, den |-> 10]

-----------------------------------------------------------------------------
(* The command scan of a for loop, lines 626-642, on its own: lists of up  *)
(* to MaxCmds commands over two MEAN and two DELAY symbols, each bound or  *)
(* not.                                                                    *)

ScanSymbols == {"R", "R2", "D", "D2"}

ScanVals(sym) == IF sym \in {"R", "R2"} THEN MeanVals ELSE {0, 2}

ScanBindings ==
    UNION { {w \in [S -> MeanVals \cup {0, 2}] : \A sym \in S : w[sym] \in ScanVals(sym)} :
            S \in SUBSET ScanSymbols }

ScanCommandSet ==
    {[mean |-> "R"], [mean |-> "R2"], [delay |-> "D"], [delay |-> "D2"],
     [outputs |-> [Vout |-> "V", Iout |-> "I"]]}

ScanCalls ==
    [fn : {"scan"}, w : ScanBindings,
     commands : UNION {[1..n -> ScanCommandSet] : n \in 0..MaxCmds}]

InitScan ==
    /\ EngineAtRest
    /\ call \in ScanCalls
    /\ returned = FALSE
    /\ result = << >>

(* lines 627-628 give the values the scan starts from *)
scan ==
    /\ call.fn = "scan"
    /\ Return(ScanCommands(call.w, call.commands, 1, 0))

SpecScan == InitScan /\ [][scan]_vars

ScanDone == call.fn = "scan" /\ returned

(* The value the last command of a kind supplies, or the default *)
Effective(w, commands, kind, default) ==
    LET of_kind == {k \in 1..Len(commands) : kind \in DOMAIN commands[k]}
        sym == commands[Max(of_kind)][kind]
    IN  IF of_kind /= {} /\ Has(w, sym) THEN w[sym] ELSE default

(* C17: the effective mean count of a pass is the bound value of the last  *)
(* MEAN of the list and the effective delay the bound value of the last    *)
(* DELAY; without such a command, or when it supplies no bound value, the  *)
(* count is 1 and the delay is 0.                                          *)
C17_EffectiveMeanAndDelay ==
    ScanDone =>
        /\ result.r_val = Effective(call.w, call.commands, "mean", 1)
        /\ result.delay_val = Effective(call.w, call.commands, "delay", 0)

-----------------------------------------------------------------------------
(* Several run requests.  Every request starts a daemon thread running     *)
(* task (line 696); nothing in run_method or task waits for an earlier     *)
(* thread.  Each thread here names and opens its output file and sweeps    *)
(* one value with one reading.  A file is its rows and the threads that    *)
(* opened or wrote it; folder[n] is the file <experiment>_n.csv.           *)

MaxRuns == 2

RunIds == 1..MaxRuns

Sequential == <<Inputs, pc, error, continue_method, csv_rows, total_steps,
                step_counter, block_i, cycles_val, c, loop_i, r_val, delay_val,
                V_values, v_i, currents, progress_bar, passes, begun, trace,
                call, returned, result>>

NewFile(r) == [rows |-> <<HeaderRow>>, writers |-> {r}]

InitRuns ==
    /\ DEBUGGING \in BOOLEAN
    /\ process_parsed = << >>
    /\ input_widgets = << >>
    /\ EngineStart
    /\ NoCall
    /\ runs = [r \in RunIds |-> [pc |-> "idle", fname |-> 0]]
    /\ folder \in {<< >>, <<[rows |-> <<HeaderRow>>, writers |-> {}]>>}
    /\ device_log = << >>

At(r, where) == runs[r].pc = where
Goto(r, where) == runs' = [runs EXCEPT ![r].pc = where]

(* line 696 *)
thread_start(r) ==
    /\ At(r, "idle")
    /\ Goto(r, "name")
    /\ UNCHANGED <<Sequential, folder, device_log>>

(* lines 562-568: one more than the largest number in the folder *)
thread_name(r) ==
    /\ At(r, "name")
    /\ runs' = [runs EXCEPT ![r] = [pc |-> "open", fname |-> Len(folder) + 1]]
    /\ UNCHANGED <<Sequential, folder, device_log>>

(* lines 585-587: mode "w" creates the file or empties it *)
thread_open(r) ==
    /\ At(r, "open")
    /\ folder' = IF runs[r].fname > Len(folder)
                   THEN Append(folder, NewFile(r))
                   ELSE [folder EXCEPT ![runs[r].fname] =
                            [rows |-> <<HeaderRow>>, writers |-> @.writers \cup {r}]]
    /\ Goto(r, "set")
    /\ UNCHANGED <<Sequential, device_log>>

(* lines 651-656 *)
thread_set(r) ==
    /\ At(r, "set")
    /\ LET res == setVoltage(DEBUGGING, 0)
       IN  IF res.error /= ""
             THEN /\ Goto(r, "failed")
                  /\ UNCHANGED device_log
             ELSE /\ Goto(r, "read")
                  /\ device_log' = Append(device_log, <<r, "set">>)
    /\ UNCHANGED <<Sequential, folder>>

(* lines 657-659 *)
thread_read(r) ==
    /\ At(r, "read")
    /\ device_log' = Append(device_log, <<r, "read">>)
    /\ Goto(r, "append")
    /\ UNCHANGED <<Sequential, folder>>

(* lines 661-665 *)
thread_append(r) ==
    /\ At(r, "append")
    /\ folder' = [folder EXCEPT ![runs[r].fname] =
                     [rows |-> Append(@.rows, SampleRow(0, CurrentOf(DebugResponse))),
                      writers |-> @.writers \cup {r}]]
    /\ Goto(r, "end")
    /\ UNCHANGED <<Sequential, device_log>>

(* lines 677-679 *)
thread_end(r) ==
    /\ At(r, "end")
    /\ Goto(r, "done")
    /\ UNCHANGED <<Sequential, folder, device_log>>

NextRuns ==
    \E r \in RunIds :
        \/ thread_start(r)
        \/ thread_name(r)
        \/ thread_open(r)
        \/ thread_set(r)
        \/ thread_read(r)
        \/ thread_append(r)
        \/ thread_end(r)

SpecRuns == InitRuns /\ [][NextRuns]_vars

Between(r) == runs[r].pc \notin {"idle", "done", "failed"}

OneRunAtATime == \A r1, r2 \in DOMAIN runs : Between(r1) /\ Between(r2) => r1 = r2

InstrumentNotShared ==
    \A i, j, k \in 1..Len(device_log) :
        i < j /\ j < k /\ device_log[i][1] = device_log[k][1]
            => device_log[j][1] = device_log[i][1]

SinkNotShared == \A n \in 1..Len(folder) : Cardinality(folder[n].writers) <= 1

(* C12: whatever run requests are made, a run has the instrument and its   *)
(* output file to itself from its first to its last operation: no two runs *)
(* are between start and end at once, the set and read operations of two   *)
(* runs do not interleave, and no file is written by two runs.             *)
C12_RunsAreExclusive ==
    /\ OneRunAtATime
    /\ InstrumentNotShared
    /\ SinkNotShared

-----------------------------------------------------------------------------
(* The sweep of one for loop on binary64 values, lines 620-622, 644-648    *)
(* and 682-693, for bindings that are integers next to 2^53.  A value is   *)
(* written as its distance k from 2^53: below 2^53 every integer is a      *)
(* double, from 2^53 to 2^54 only the even ones are, and a result halfway  *)
(* between two doubles goes to the one whose significand is even.  The     *)
(* list vals is left out: nothing reads it before frange returns.          *)

WideOffsets == -2..4

(* the double nearest to 2^53 + k: float(text) and the result of x += step *)
Double(k) ==
    IF k <= 0 \/ k % 2 = 0 THEN k
    ELSE IF (k + 1) % 4 = 0 THEN k + 1 ELSE k - 1

WideCalls ==
    [fn : {"frange"}, start : WideOffsets, end : WideOffsets, step : {-2, -1, 1, 2}]

InitWide ==
    /\ EngineAtRest
    /\ call \in WideCalls
    /\ returned = FALSE
    /\ result = [x |-> 0, stop |-> 0, step |-> 0, at |-> "test"]

(* lines 620-622 and 644-648, then lines 683-684 *)
frange_begin ==
    /\ call.fn = "frange"
    /\ LET start_val == Double(call.start)
           end_val == Double(call.end)
       IN  result' = [x |-> start_val, stop |-> end_val,
                      step |-> IF start_val < end_val THEN call.step ELSE -Abs(call.step),
                      at |-> "test"]
    /\ call' = [call EXCEPT !.fn = "frange_loop"]
    /\ UNCHANGED <<returned, Engine>>

(* lines 685-686 and 689-690, 693: the while condition of the branch the   *)
(* sign of step selects                                                    *)
frange_test ==
    /\ call.fn = "frange_loop"
    /\ ~returned
    /\ result.at = "test"
    /\ IF \/ result.step > 0 /\ result.x <= result.stop
          \/ result.step <= 0 /\ result.x >= result.stop
         THEN /\ result' = [result EXCEPT !.at = "body"]
              /\ UNCHANGED returned
         ELSE /\ returned' = TRUE
              /\ UNCHANGED result
    /\ UNCHANGED <<call, Engine>>

(* lines 687-688 and 691-692: vals.append(x); x += step *)
frange_body ==
    /\ call.fn = "frange_loop"
    /\ result.at = "body"
    /\ result' = [result EXCEPT !.x = Double(result.x + result.step), !.at = "test"]
    /\ UNCHANGED <<call, returned, Engine>>

NextWide == frange_begin \/ frange_test \/ frange_body

(* the thread keeps running: a step that can be taken is taken *)
SpecWide == InitWide /\ [][NextWide]_vars /\ WF_vars(NextWide)

(* C21: a run with integer-valued bindings ends: for any non-zero step of  *)
(* either sign and any order of start and end the sweep of a for loop      *)
(* produces finitely many values, so frange returns.                       *)
C21_SweepEnds == <>returned

-----------------------------------------------------------------------------
(* Readings behind a sample, on the run of Spec *)

(* the readings between the last setpoint before event k and event k *)
ReadingsBefore(k) ==
    LET sets == {j \in 1..(k - 1) : trace[j][1] = "set"}
        from == IF sets = {} THEN 1 ELSE Max(sets) + 1
    IN  SubSeq(trace, from, k - 1)

MeanOfReadings(k) ==
    LET readings == ReadingsBefore(k)
    IN  /\ readings /= << >>
        /\ \A j \in 1..Len(readings) : readings[j][1] = "read"
        /\ trace[k][3] = Mean([j \in 1..Len(readings) |-> readings[j][2]])

(* the sweep value taken up last belongs to a loop whose count is 0 or less *)
NoReadingsAsked == begun /= << >> /\ begun[Len(begun)][2] <= 0

(* C22: every recorded sample is the mean of at least one reading; when a  *)
(* for loop's mean count is 0 or less the run fails at the loop's first    *)
(* sweep value, after the setpoint for it has been commanded, with no read *)
(* made and no sample recorded for it.                                     *)
C22_SampleIsMeanOfReadings ==
    /\ \A k \in 1..Len(trace) : trace[k][1] = "append" => MeanOfReadings(k)
    /\ NoReadingsAsked =>
           /\ v_i = 1
           /\ pc \in {"read", "failed"}
           /\ pc = "read" => currents = << >> /\ ~ENABLED read
           /\ pc = "failed" => error = "ZeroDivisionError"
           /\ trace /= << >> /\ trace[Len(trace)] = <<"set", begun[Len(begun)][1]>>

====
